---- MODULE Spec2Model ----
(***************************************************************************)
(* Model of src/commitment_scheme/blake2_hash.rs: the Blake2sHash digest   *)
(* wrapper, the Blake2sHasher incremental state machine and the unsafe     *)
(* batch entry point hash_many_in_place.                                   *)
(*                                                                         *)
(* The file delegates the digest computation to the blake2 crate           *)
(* (Blake2s256 and Blake2sVar).  The crate is modelled by what it          *)
(* computes: the BLAKE2s compression function of RFC 7693 on 32-bit words, *)
(* the lazy 64-byte block buffer in front of it, and the reset that        *)
(* restores the parameterised initial chaining value.                      *)
(*                                                                         *)
(* A 32-bit word is a pair <<hi, lo>> of 16-bit halves, so that every      *)
(* intermediate value stays inside the integers of the model checker and   *)
(* additions wrap modulo 2^32 exactly as wrapping_add does.                *)
(***************************************************************************)
EXTENDS Integers, Sequences, FiniteSets, TLC

VARIABLES
    \* ---- Blake2sHasher instance (specification Spec) ----
    hasher,     \* the field `state`: core (h, t, h0) and block buffer (buf)
    ups,        \* history: the slices passed to update since the instance was last empty
    base,       \* history: what made the instance empty last: "new", "reset" or "finalize_reset"
    ret,        \* history: the digest returned by the last call (if any), with the slices
                \* and the emptying call it followed; for reset, the slices discarded
    last,       \* name of the last call made on the instance
    nops,       \* number of calls made so far
    \* ---- Blake2sHash conversions (specification SpecDigest) ----
    input,      \* the caller's byte buffer (a Vec<u8>, also viewed as &[u8])
    dig,        \* the Blake2sHash obtained from it, NoDigest, or Panic
    conv,       \* the result of converting dig out of the digest type
    back,       \* the Blake2sHash rebuilt from conv
    dstep,      \* position in the conversion chain
    \* ---- hash_many_in_place (specification SpecBatch) ----
    mem,        \* the caller's memory, byte addressed
    call,       \* the arguments of the call: data, single_input_length_bytes, dst
    trace,      \* history: one record per pair processed, in processing order
    bstep       \* "ready" before the call, "returned" after it

vars == <<hasher, ups, base, ret, last, nops,
          input, dig, conv, back, dstep,
          mem, call, trace, bstep>>

hasherVars == <<hasher, ups, base, ret, last, nops>>
digestVars == <<input, dig, conv, back, dstep>>
batchVars  == <<mem, call, trace, bstep>>

-----------------------------------------------------------------------------
(* Program constants.                                                      *)

BLOCK_SIZE == 64
OUTPUT_SIZE == 32

(* Bounds of the model.                                                    *)
MaxOps == 3         \* calls made on one hasher instance
MaxBufLen == 33     \* longest byte buffer offered to the digest constructors
MaxN == 2           \* longest address collection passed to hash_many_in_place
MemSize == 104      \* bytes of caller memory

-----------------------------------------------------------------------------------------------------------------------------------------------------
(* 32-bit word arithmetic on <<hi, lo>> halves.                            *)

RECURSIVE XorBits(_, _, _)
XorBits(a, b, n) ==
    IF n = 0 THEN 0
    ELSE ((a + b) % 2) + 2 * XorBits(a \div 2, b \div 2, n - 1)

\* exclusive or of two 4-bit values, tabulated
XorTab == [a \in 0..15 |-> [b \in 0..15 |-> XorBits(a, b, 4)]]

\* exclusive or of two 16-bit values, four bits at a time
Xor16(a, b) ==
      XorTab[a % 16][b % 16]
    + 16 * XorTab[(a \div 16) % 16][(b \div 16) % 16]
    + 256 * XorTab[(a \div 256) % 16][(b \div 256) % 16]
    + 4096 * XorTab[a \div 4096][b \div 4096]

Xor32(a, b) == <<Xor16(a[1], b[1]), Xor16(a[2], b[2])>>

\* wrapping_add on u32
Add32(a, b) ==
    <<(a[1] + b[1] + ((a[2] + b[2]) \div 65536)) % 65536, (a[2] + b[2]) % 65536>>

\* rotate_right on u32 by n bits, 0 < n <= 16
RotR(w, n) ==
    <<(w[1] \div 2^n) + (w[2] % 2^n) * 2^(16 - n),
      (w[2] \div 2^n) + (w[1] % 2^n) * 2^(16 - n)>>

-----------------------------------------------------------------------------
(* BLAKE2s compression.                                                    *)

\* 6A09E667 BB67AE85 3C6EF372 A54FF53A 510E527F 9B05688C 1F83D9AB 5BE0CD19
IV == << <<27145, 58983>>, <<47975, 44677>>, <<15470, 62322>>, <<42319, 62778>>,
         <<20750, 21119>>, <<39685, 26764>>, <<8067, 55723>>,  <<23520, 52505>> >>

SIGMA == <<
    <<0, 1, 2, 3, 4, 5, 6, 7, 8, 9, 10, 11, 12, 13, 14, 15>>,
    <<14, 10, 4, 8, 9, 15, 13, 6, 1, 12, 0, 2, 11, 7, 5, 3>>,
    <<11, 8, 12, 0, 5, 2, 15, 13, 10, 14, 3, 6, 7, 1, 9, 4>>,
    <<7, 9, 3, 1, 13, 12, 11, 14, 2, 6, 5, 10, 4, 0, 15, 8>>,
    <<9, 0, 5, 7, 2, 4, 10, 15, 14, 1, 11, 12, 6, 8, 3, 13>>,
    <<2, 12, 6, 10, 0, 11, 8, 3, 4, 13, 7, 5, 15, 14, 1, 9>>,
    <<12, 5, 1, 15, 14, 13, 4, 10, 0, 7, 6, 3, 9, 2, 8, 11>>,
    <<13, 11, 7, 14, 12, 1, 3, 9, 5, 0, 15, 4, 8, 6, 2, 10>>,
    <<6, 15, 14, 9, 11, 3, 0, 8, 12, 2, 13, 7, 1, 4, 10, 5>>,
    <<10, 2, 8, 4, 7, 6, 1, 5, 15, 11, 9, 14, 3, 12, 13, 0>> >>

\* the positions (a, b, c, d) of the working vector mixed by the eight G
\* steps of a round: four columns, then four diagonals (1-based)
GIDX == << <<1, 5, 9, 13>>, <<2, 6, 10, 14>>, <<3, 7, 11, 15>>, <<4, 8, 12, 16>>,
           <<1, 6, 11, 16>>, <<2, 7, 12, 13>>, <<3, 8, 9, 14>>, <<4, 5, 10, 15>> >>

\* half of the mixing function G: a += b + x; d = (d ^ a) >>> r1;
\* c += d; b = (b ^ c) >>> r2, at the positions q = (a, b, c, d) of v
GHalf(v, q, x, r1, r2) ==
    LET a == Add32(Add32(v[q[1]], v[q[2]]), x)
        d == RotR(Xor32(v[q[4]], a), r1)
        c == Add32(v[q[3]], d)
        b == RotR(Xor32(v[q[2]], c), r2)
    IN  [v EXCEPT ![q[1]] = a, ![q[2]] = b, ![q[3]] = c, ![q[4]] = d]

\* the mixing function G with message words mx and my
G(v, q, mx, my) == GHalf(GHalf(v, q, mx, 16, 12), q, my, 8, 7)

\* one round with message schedule s: st carries the working vector and the
\* number of G steps already made
RECURSIVE Round(_, _, _)
Round(st, m, s) ==
    IF st.k >= 8 THEN st.v
    ELSE Round([v |-> G(st.v, GIDX[st.k + 1],
                        m[s[2 * st.k + 1] + 1], m[s[2 * st.k + 2] + 1]),
                k |-> st.k + 1], m, s)

\* the ten rounds; st carries the working vector and the rounds already made
RECURSIVE Rounds(_, _)
Rounds(st, m) ==
    IF st.r >= 10 THEN st.v
    ELSE Rounds([v |-> Round([v |-> st.v, k |-> 0], m, SIGMA[st.r + 1]),
                 r |-> st.r + 1], m)

\* the sixteen little-endian message words of a 64-byte block
MessageWords(block) ==
    [i \in 1..16 |-> <<block[4 * i] * 256 + block[4 * i - 1],
                       block[4 * i - 2] * 256 + block[4 * i - 3]>>]

\* h[i] ^= v[i] ^ v[i + 8] for the words i..8
RECURSIVE Feedforward(_, _, _)
Feedforward(h, v, i) ==
    IF i > 8 THEN <<>>
    ELSE <<Xor32(h[i], Xor32(v[i], v[i + 8]))>> \o Feedforward(h, v, i + 1)

\* compress(block, f0, 0) with byte counter t (below 2^16 in this model);
\* lastBlock selects f0 = !0
Compress(h, block, t, lastBlock) ==
    Feedforward(h,
        Rounds([v |-> h \o [IV EXCEPT
                    ![5] = Xor32(IV[5], <<0, t>>),
                    ![7] = IF lastBlock THEN Xor32(IV[7], <<65535, 65535>>) ELSE IV[7]],
                r |-> 0],
               MessageWords(block)),
        1)

\* the chaining value as bytes, each word little-endian
WordBytes(h) ==
    [k \in 1..(4 * Len(h)) |->
        LET w == h[((k - 1) \div 4) + 1]
            j == (k - 1) % 4
        IN  IF j = 0 THEN w[2] % 256
            ELSE IF j = 1 THEN w[2] \div 256
            ELSE IF j = 2 THEN w[1] % 256
            ELSE w[1] \div 256]

-----
(* Byte containers.  A Vec<u8> or a slice is a sequence (positions 1..n);  *)
(* a fixed array [u8; N] is a function on 0..N-1.                          *)

Min(a, b) == IF a <= b THEN a ELSE b

Take(s, n) == SubSeq(s, 1, n)
Drop(s, n) == SubSeq(s, n + 1, Len(s))
Zeros(n) == [i \in 1..n |-> 0]
Fill(b, n) == [i \in 1..n |-> b]

ArrayFromSeq(s) == [i \in 0..(Len(s) - 1) |-> s[i + 1]]
ArrayLen(a) == Cardinality(DOMAIN a)

RECURSIVE Flatten(_)
Flatten(ss) == IF ss = <<>> THEN <<>> ELSE Head(ss) \o Flatten(Tail(ss))

-----------------------------------------------------------------------------
(* The digest value type: pub struct Blake2sHash([u8; 32]), a tuple struct *)
(* whose only field .0 is the byte array.                                  *)

Blake2sHash(arr) == <<arr>>
Field0(d) == d[1]
NoDigest == <<>>

-----------------------------------------------------------------------------
(* blake2::Blake2s256 and blake2::Blake2sVar: a Blake2sVarCore (h, t, h0)  *)
(* behind a lazy block buffer (buf).                                       *)

\* Blake2sVarCore::new_with_params(&[], &[], 0, output_size): the parameter
\* word 0x0101_0000 ^ output_size is folded into the first chaining word
CoreNew(output_size) ==
    LET h == [IV EXCEPT ![1] = Xor32(IV[1], <<257, output_size>>)]
    IN  [h |-> h, t |-> 0, h0 |-> h, buf |-> <<>>]

\* UpdateCore::update_blocks: for each block, t += 64 and compress(block, 0, 0)
RECURSIVE update_blocks(_, _)
update_blocks(st, blocks) ==
    IF blocks = <<>> THEN st
    ELSE update_blocks(
            [st EXCEPT !.t = st.t + BLOCK_SIZE,
                       !.h = Compress(st.h, Take(blocks, BLOCK_SIZE),
                                      st.t + BLOCK_SIZE, FALSE)],
            Drop(blocks, BLOCK_SIZE))

\* the lazy block buffer's digest_blocks: data that fits is only buffered (the
\* buffer may stay completely full); otherwise the buffer is filled and
\* compressed, then whole blocks of the rest are compressed, always leaving
\* the last 1..64 bytes buffered for the final compression
digest_blocks(st, data) ==
    LET pos == Len(st.buf)
        rem == BLOCK_SIZE - pos
    IN  IF Len(data) <= rem THEN [st EXCEPT !.buf = st.buf \o data]
        ELSE
            LET first == IF pos # 0 THEN st.buf \o Take(data, rem) ELSE <<>>
                rest  == IF pos # 0 THEN Drop(data, rem) ELSE data
                nb    == IF Len(rest) % BLOCK_SIZE = 0
                         THEN (Len(rest) \div BLOCK_SIZE) - 1
                         ELSE Len(rest) \div BLOCK_SIZE
            IN  [update_blocks(st, first \o Take(rest, nb * BLOCK_SIZE))
                    EXCEPT !.buf = Drop(rest, nb * BLOCK_SIZE)]

\* VariableOutputCore::finalize_variable_core: t += pos, the buffer is padded
\* with zeros and compressed with the last-block flag; the core is left in
\* its finalized state and the buffer position at 0
finalize_variable_core(st) ==
    LET t1 == st.t + Len(st.buf)
        block == st.buf \o Zeros(BLOCK_SIZE - Len(st.buf))
    IN  [st EXCEPT !.t = t1, !.h = Compress(st.h, block, t1, TRUE), !.buf = <<>>]

\* the output bytes of a finalized core, truncated to n bytes
OutputBytes(st, n) == Take(WordBytes(st.h), n)

\* Reset for the core (h = h0, t = 0) and for the buffer
CoreReset(st) == [st EXCEPT !.h = st.h0, !.t = 0, !.buf = <<>>]

-----------------------------------------------------------------------------
(* impl Hasher for Blake2sHasher                                           *)

new == CoreNew(OUTPUT_SIZE)

\* variant: the core is reset, the block buffer is not
reset_core_only(st) == [st EXCEPT !.h = st.h0, !.t = 0]

reset(st) == CoreReset(st)

\* variant: the slice replaces the buffered bytes instead of following them
update_overwrite(st, data) == [st EXCEPT !.buf = data]

update(st, data) == digest_blocks(st, data)

finalize(st) ==
    Blake2sHash(ArrayFromSeq(OutputBytes(finalize_variable_core(st), OUTPUT_SIZE)))

\* returns the digest and the state the instance is left in
FinishReset(f) ==
    [digest |-> Blake2sHash(ArrayFromSeq(OutputBytes(f, OUTPUT_SIZE))),
     state  |-> CoreReset(f)]

\* variant: the digest is produced and the state is left as it was
finalize_reset_keep(st) ==
    [digest |-> Blake2sHash(ArrayFromSeq(OutputBytes(finalize_variable_core(st), OUTPUT_SIZE))),
     state  |-> st]

finalize_reset(st) == FinishReset(finalize_variable_core(st))

\* Hasher::hash, the trait's single-shot default: new(); update(data); finalize()
hash(data) == finalize(update(new, data))

-----------------------------------------------------------------------------
(* Calls on one Blake2sHasher instance.                                    *)

\* the slices offered to update: "a", "b" (the tests' inputs), one byte short
\* of a block, and exactly one block
Chunks == {<<97>>, <<98>>, Fill(97, BLOCK_SIZE - 1), Fill(98, BLOCK_SIZE)}

NoRet == [digest |-> NoDigest, of |-> <<>>, base |-> "none"]

\* finalize(self) moves the instance: no call can follow it
Usable == last # "finalize" /\ nops < MaxOps

CallUpdate ==
    /\ Usable
    /\ \E data \in Chunks :
          /\ hasher' = update(hasher, data)
          /\ ups' = Append(ups, data)
    /\ ret' = NoRet
    /\ last' = "update"
    /\ nops' = nops + 1
    /\ UNCHANGED <<base, digestVars, batchVars>>

CallReset ==
    /\ Usable
    /\ hasher' = reset(hasher)
    /\ ups' = <<>>
    /\ base' = "reset"
    /\ ret' = [digest |-> NoDigest, of |-> ups, base |-> base]
    /\ last' = "reset"
    /\ nops' = nops + 1
    /\ UNCHANGED <<digestVars, batchVars>>

CallFinalize ==
    /\ Usable
    /\ ret' = [digest |-> finalize(hasher), of |-> ups, base |-> base]
    /\ last' = "finalize"
    /\ nops' = nops + 1
    /\ UNCHANGED <<hasher, ups, base, digestVars, batchVars>>

CallFinalizeReset ==
    /\ Usable
    /\ \E r \in {finalize_reset(hasher)} :
          /\ ret' = [digest |-> r.digest, of |-> ups, base |-> base]
          /\ hasher' = r.state
    /\ ups' = <<>>
    /\ base' = "finalize_reset"
    /\ last' = "finalize_reset"
    /\ nops' = nops + 1
    /\ UNCHANGED <<digestVars, batchVars>>

-----------------------------------------------------------------------------
(* Conversions of the digest type.  A conversion that can panic returns a  *)
(* record: panic is the message of the panic ("" when there is none), the  *)
(* text passed to expect followed by ": " and the Debug form of the error, *)
(* and value the digest built (NoDigest when it panicked).                 *)

Ok(d) == [panic |-> "", value |-> d]
Panicked(msg) == [panic |-> msg, value |-> NoDigest]
NoResult == [panic |-> "", value |-> NoDigest]

\* Vec::from(array), and the unsizing of &[u8; N] to &[u8]: the same bytes
\* in the same order, as a sequence
VecFromArray(arr) == [i \in 1..ArrayLen(arr) |-> arr[i - 1]]

DecChars == <<"0", "1", "2", "3", "4", "5", "6", "7", "8", "9">>

\* the Debug form of a u8: its decimal digits
RECURSIVE Decimal(_)
Decimal(n) ==
    IF n < 10 THEN DecChars[n + 1]
    ELSE Decimal(n \div 10) \o DecChars[(n % 10) + 1]

RECURSIVE DebugItems(_)
DebugItems(s) ==
    IF Len(s) = 1 THEN Decimal(Head(s))
    ELSE Decimal(Head(s)) \o ", " \o DebugItems(Tail(s))

\* the Debug form of a Vec<u8>: [b1, b2, ...]
DebugVec(s) == IF s = <<>> THEN "[]" ELSE "[" \o DebugItems(s) \o "]"

\* Vec<u8>::try_into() to [u8; 32]: Err unless the length is exactly 32,
\* the error being the vector itself
TryIntoArray(s) ==
    IF Len(s) = OUTPUT_SIZE
    THEN [ok |-> TRUE, arr |-> ArrayFromSeq(s), err |-> ""]
    ELSE [ok |-> FALSE, arr |-> ArrayFromSeq(<<>>), err |-> DebugVec(s)]

\* <&[u8]>::try_into() to [u8; 32]: Err unless the length is exactly 32,
\* the error being a TryFromSliceError
TryIntoArraySlice(s) ==
    IF Len(s) = OUTPUT_SIZE
    THEN [ok |-> TRUE, arr |-> ArrayFromSeq(s), err |-> ""]
    ELSE [ok |-> FALSE, arr |-> ArrayFromSeq(<<>>), err |-> "TryFromSliceError(())"]

\* Result::expect(msg): panics with "msg: " and the Debug form of the error
Expect(r, msg) ==
    IF r.ok THEN Ok(Blake2sHash(r.arr)) ELSE Panicked(msg \o ": " \o r.err)

\* variant: the bytes come out in reverse order
IntoVec_reversed(d) ==
    [i \in 1..ArrayLen(Field0(d)) |-> Field0(d)[ArrayLen(Field0(d)) - i]]

\* impl From<Blake2sHash> for Vec<u8>
IntoVec(d) == VecFromArray(Field0(d))

\* variant: a buffer longer than 32 bytes is truncated instead of refused
FromVec_truncating(value) ==
    Expect(TryIntoArray(Take(value, Min(Len(value), OUTPUT_SIZE))),
           "Failed converting Vec<u8> to Blake2Hash type")

\* impl From<Vec<u8>> for Blake2sHash
FromVec(value) ==
    Expect(TryIntoArray(value), "Failed converting Vec<u8> to Blake2Hash type")

\* impl From<&[u8]> for Blake2sHash
FromSlice(value) ==
    Expect(TryIntoArraySlice(value), "Failed converting &[u8] to Blake2sHash Type!")

\* impl AsRef<[u8]> for Blake2sHash: &self.0 as a slice
AsRef(d) == VecFromArray(Field0(d))

\* impl From<Blake2sHash> for [u8; 32]
IntoArray(d) == Field0(d)

\* the From impls that involve the digest type, as <<source, target>>:
\* lines 10, 16, 26 and 42.  None takes a [u8; 32].
FromImpls ==
    {<<"Blake2sHash", "Vec<u8>">>, <<"Vec<u8>", "Blake2sHash">>,
     <<"&[u8]", "Blake2sHash">>, <<"Blake2sHash", "[u8; 32]">>}

\* the type of a value converted out of the digest type
TypeOf(kind) ==
    IF kind = "vec" THEN "Vec<u8>"
    ELSE IF kind = "array" THEN "[u8; 32]"
    ELSE IF kind = "slice" THEN "&[u8]"
    ELSE "String"

\* #[derive(Default)]: the all-zero array
DefaultHash == Blake2sHash([i \in 0..(OUTPUT_SIZE - 1) |-> 0])

HexChars == <<"0", "1", "2", "3", "4", "5", "6", "7",
              "8", "9", "a", "b", "c", "d", "e", "f">>

\* hex::encode: two lowercase digits per byte, high nibble first
RECURSIVE HexEncode(_)
HexEncode(bytes) ==
    IF bytes = <<>> THEN ""
    ELSE HexChars[(Head(bytes) \div 16) + 1] \o HexChars[(Head(bytes) % 16) + 1]
         \o HexEncode(Tail(bytes))

\* variant: uppercase digits (hex::encode_upper)
RECURSIVE HexEncodeUpper(_)
HexEncodeUpper(bytes) ==
    IF bytes = <<>> THEN ""
    ELSE <<"0", "1", "2", "3", "4", "5", "6", "7",
           "8", "9", "A", "B", "C", "D", "E", "F">>[(Head(bytes) \div 16) + 1]
         \o <<"0", "1", "2", "3", "4", "5", "6", "7",
              "8", "9", "A", "B", "C", "D", "E", "F">>[(Head(bytes) % 16) + 1]
         \o HexEncodeUpper(Tail(bytes))

Display_upper(d) == HexEncodeUpper(VecFromArray(Field0(d)))

\* impl fmt::Display for Blake2sHash (to_string)
Display(d) == HexEncode(VecFromArray(Field0(d)))

\* impl fmt::Debug for Blake2sHash: delegates to Display
Debug(d) == Display(d)

-----------------------------------------------------------------------------
(* The conversion chain: a byte buffer is turned into a digest, the digest *)
(* is converted out of the digest type, and the result is converted back.  *)

Pattern(seed, n) == [i \in 1..n |-> (seed + 7 * (i - 1)) % 256]

\* first bytes of the buffers offered: 0, "a", "b"
Seeds == {0, 97, 98}

Inputs == {Pattern(seed, n) : seed \in Seeds, n \in 0..MaxBufLen}

NoConv == [kind |-> "none", v |-> <<>>]

FromVecCall ==
    /\ dstep = "start"
    /\ dig' = FromVec(input) @@ [by |-> "from_vec"]
    /\ dstep' = IF FromVec(input).panic = "" THEN "have" ELSE "panicked"
    /\ UNCHANGED <<input, conv, back, hasherVars, batchVars>>

FromSliceCall ==
    /\ dstep = "start"
    /\ dig' = FromSlice(input) @@ [by |-> "from_slice"]
    /\ dstep' = IF FromSlice(input).panic = "" THEN "have" ELSE "panicked"
    /\ UNCHANGED <<input, conv, back, hasherVars, batchVars>>

HashCall ==
    /\ dstep = "start"
    /\ dig' = Ok(hash(input)) @@ [by |-> "hash"]
    /\ dstep' = "have"
    /\ UNCHANGED <<input, conv, back, hasherVars, batchVars>>

DefaultCall ==
    /\ dstep = "start"
    /\ dig' = Ok(DefaultHash) @@ [by |-> "default"]
    /\ dstep' = "have"
    /\ UNCHANGED <<input, conv, back, hasherVars, batchVars>>

IntoVecCall ==
    /\ dstep = "have"
    /\ conv' = [kind |-> "vec", v |-> IntoVec(dig.value)]
    /\ dstep' = "converted"
    /\ UNCHANGED <<input, dig, back, hasherVars, batchVars>>

IntoArrayCall ==
    /\ dstep = "have"
    /\ conv' = [kind |-> "array", v |-> IntoArray(dig.value)]
    /\ dstep' = "converted"
    /\ UNCHANGED <<input, dig, back, hasherVars, batchVars>>

AsRefCall ==
    /\ dstep = "have"
    /\ conv' = [kind |-> "slice", v |-> AsRef(dig.value)]
    /\ dstep' = "converted"
    /\ UNCHANGED <<input, dig, back, hasherVars, batchVars>>

DisplayCall ==
    /\ dstep = "have"
    /\ conv' = [kind |-> "string", v |-> Display(dig.value)]
    /\ dstep' = "converted"
    /\ UNCHANGED <<input, dig, back, hasherVars, batchVars>>

DebugCall ==
    /\ dstep = "have"
    /\ conv' = [kind |-> "debug", v |-> Debug(dig.value)]
    /\ dstep' = "converted"
    /\ UNCHANGED <<input, dig, back, hasherVars, batchVars>>

\* back into the digest type, through the From impl that takes the
\* converted value: From<Vec<u8>> for a vector, From<&[u8]> for a slice.
\* No impl takes a [u8; 32], so an array has no conversion back.
BackCall ==
    /\ dstep = "converted"
    /\ <<TypeOf(conv.kind), "Blake2sHash">> \in FromImpls
    /\ back' = IF conv.kind = "vec" THEN FromVec(conv.v) ELSE FromSlice(conv.v)
    /\ dstep' = "back"
    /\ UNCHANGED <<input, dig, conv, hasherVars, batchVars>>

-----------------------------------------------------------------------------
(* hash_many_in_place over the caller's memory.  The memory is a function  *)
(* from addresses 0..MemSize-1 to bytes; a raw pointer is an address.      *)

\* std::slice::from_raw_parts(p, n), read: the n bytes at p
ReadBytes(m, p, n) == [i \in 1..n |-> m[p + i - 1]]

\* variant: one byte too many is written
WriteBytes_overrun(m, p, bytes) ==
    [a \in DOMAIN m |->
        IF a >= p /\ a < p + Len(bytes) THEN bytes[a - p + 1]
        ELSE IF a = p + Len(bytes) THEN 0
        ELSE m[a]]

\* std::slice::from_raw_parts_mut(p, n), written with bytes (n = Len(bytes))
WriteBytes(m, p, bytes) ==
    [a \in DOMAIN m |-> IF a >= p /\ a < p + Len(bytes) THEN bytes[a - p + 1] ELSE m[a]]

\* Blake2sVar::new(output_size).unwrap(): Err(InvalidOutputSize) above 32
Blake2sVar_new(output_size) == CoreNew(output_size)

\* hasher.finalize_variable(out).unwrap(): the bytes written to out, whose
\* length is the hasher's output size
finalize_variable(st, n) == OutputBytes(finalize_variable_core(st), n)

\* variant: the last pair is left out
Zip_short(data, dst) ==
    [i \in 1..(Min(Len(data), Len(dst)) - 1) |-> [src |-> data[i], out |-> dst[i]]]

\* data.iter().map(..).zip(dst.iter().map(..)): pairs up to the shorter length
Zip(data, dst) == [i \in 1..Min(Len(data), Len(dst)) |-> [src |-> data[i], out |-> dst[i]]]

\* variant: the hasher is finalized without being fed the input
HashPair_no_update(st, pair, len) ==
    [mem   |-> WriteBytes(st.mem, pair.out,
                          finalize_variable(Blake2sVar_new(OUTPUT_SIZE), OUTPUT_SIZE)),
     trace |-> Append(st.trace, [index |-> st.i, src |-> pair.src, out |-> pair.out,
                                 read |-> ReadBytes(st.mem, pair.src, len),
                                 written |-> finalize_variable(Blake2sVar_new(OUTPUT_SIZE),
                                                               OUTPUT_SIZE)]),
     i     |-> st.i + 1]

\* the closure of for_each, on the pair (src, out) at position i: a fresh
\* Blake2sVar is fed the input slice as it is in memory now, and finalized
\* into the output slice.  The record appended to the trace is history.
HashPair(st, pair, len) ==
    LET inp == ReadBytes(st.mem, pair.src, len)
        digest == finalize_variable(digest_blocks(Blake2sVar_new(OUTPUT_SIZE), inp),
                                    OUTPUT_SIZE)
    IN  [mem   |-> WriteBytes(st.mem, pair.out, digest),
         trace |-> Append(st.trace, [index |-> st.i, src |-> pair.src, out |-> pair.out,
                                     read |-> inp, written |-> digest]),
         i     |-> st.i + 1]

\* for_each: the pairs are processed one after the other, in index order
RECURSIVE ForEach(_, _, _)
RECURSIVE ForEach_reversed(_, _, _)

\* variant: the pairs are processed from the last to the first
ForEach_reversed(st, pairs, len) ==
    IF st.i > Len(pairs) THEN st
    ELSE ForEach_reversed(HashPair(st, pairs[Len(pairs) + 1 - st.i], len), pairs, len)

ForEach(st, pairs, len) ==
    IF st.i > Len(pairs) THEN st
    ELSE ForEach(HashPair(st, pairs[st.i], len), pairs, len)

hash_many_in_place(m, data, single_input_length_bytes, dst) ==
    ForEach([mem |-> m, trace |-> <<>>, i |-> 1], Zip(data, dst),
            single_input_length_bytes)

\* the caller's memory before the call: no byte is zero, and the bytes at
\* the input addresses differ from one another
InitialMemory == [a \in 0..(MemSize - 1) |-> 97 + (a % 7)]

\* input addresses: two outside every output region, one inside the output
\* region that starts at the first output address
InAddrs == {0, 4, 30}

\* output addresses: overlapping regions (8 and 32, 32 and 40), adjacent
\* ones (8 and 40, 40 and 72) and ones with a gap between them (8 and 72)
OutAddrs == {8, 32, 40, 72}

InLens == {1, 2}

SeqsUpTo(S, n) == UNION {[1..k -> S] : k \in 0..n}

NoCall == [data |-> <<>>, len |-> 0, dst |-> <<>>]

\* the calls made: every address collection of up to MaxN addresses, every
\* region inside the memory.  The slices `input` and `out` of one pair are
\* alive together (lines 111-115), so a call in which they share a byte
\* aliases a shared and a mutable slice; such calls have no defined
\* behaviour and are not made.  Regions of different pairs may overlap.
Calls ==
    {c \in [data : SeqsUpTo(InAddrs, MaxN), len : InLens, dst : SeqsUpTo(OutAddrs, MaxN)] :
        /\ \A i \in 1..Len(c.data) : c.data[i] + c.len <= MemSize
        /\ \A i \in 1..Len(c.dst) : c.dst[i] + OUTPUT_SIZE <= MemSize
        /\ \A i \in 1..Min(Len(c.data), Len(c.dst)) :
              c.data[i] + c.len <= c.dst[i] \/ c.dst[i] + OUTPUT_SIZE <= c.data[i]}

HashManyInPlace ==
    /\ bstep = "ready"
    /\ \E r \in {hash_many_in_place(mem, call.data, call.len, call.dst)} :
          /\ mem' = r.mem
          /\ trace' = r.trace
    /\ bstep' = "returned"
    /\ UNCHANGED <<call, hasherVars, digestVars>>

IdleDigest ==
    /\ input = <<>> /\ dig = NoResult @@ [by |-> "none"] /\ conv = NoConv
    /\ back = NoResult /\ dstep = "idle"

IdleBatch ==
    /\ mem = InitialMemory /\ call = NoCall /\ trace = <<>> /\ bstep = "idle"

IdleHasher ==
    /\ hasher = new /\ ups = <<>> /\ base = "new" /\ ret = NoRet
    /\ last = "idle" /\ nops = 0

Init ==
    /\ hasher = new
    /\ ups = <<>>
    /\ base = "new"
    /\ ret = NoRet
    /\ last = "new"
    /\ nops = 0
    /\ IdleDigest
    /\ IdleBatch

Next == CallUpdate \/ CallReset \/ CallFinalize \/ CallFinalizeReset

Spec == Init /\ [][Next]_vars

InitDigest ==
    /\ input \in Inputs
    /\ dig = NoResult @@ [by |-> "none"]
    /\ conv = NoConv
    /\ back = NoResult
    /\ dstep = "start"
    /\ IdleHasher
    /\ IdleBatch

NextDigest ==
    \/ FromVecCall \/ FromSliceCall \/ HashCall \/ DefaultCall
    \/ IntoVecCall \/ IntoArrayCall \/ AsRefCall \/ DisplayCall \/ DebugCall
    \/ BackCall

SpecDigest == InitDigest /\ [][NextDigest]_vars

InitBatch ==
    /\ mem = InitialMemory
    /\ call \in Calls
    /\ trace = <<>>
    /\ bstep = "ready"
    /\ IdleHasher
    /\ IdleDigest

NextBatch == HashManyInPlace

SpecBatch == InitBatch /\ [][NextBatch]_vars

-----------------------------------------------------------------------------
(* Properties of the Blake2sHasher instance, checked under Spec.           *)

\* the state of a fresh instance fed the slices of chunks, one update each
RECURSIVE Replay(_, _)
Replay(st, chunks) ==
    IF chunks = <<>> THEN st ELSE Replay(update(st, Head(chunks)), Tail(chunks))

Returned == last \in {"finalize", "finalize_reset"}

(* C1: the digest returned after any sequence of update calls is the       *)
(* single-shot hash of the concatenation of the slices fed, however the    *)
(* bytes were split across the calls.                                      *)
C1_IncrementalEqualsOneShot ==
    Returned => ret.digest = hash(Flatten(ret.of))

\* two updates whose bytes together cross a block boundary, then finalize
C1_Witness ==
    /\ last = "finalize"
    /\ Len(ret.of) = 2
    /\ Len(ret.of[1]) < BLOCK_SIZE
    /\ Len(Flatten(ret.of)) > BLOCK_SIZE
    /\ ret.digest = hash(Flatten(ret.of))

(* C2: finalize_reset returns the digest finalize returns on an instance   *)
(* fed the same updates, and leaves the instance empty: a digest taken     *)
(* right after it is the digest of the empty input, and a digest taken     *)
(* after later updates is that of a fresh instance fed those updates.      *)
C2_FinalizeResetEquivalence ==
    /\ last = "finalize_reset" =>
          /\ ret.digest = finalize(Replay(new, ret.of))
          /\ hasher = new
    /\ (Returned /\ ret.base = "finalize_reset") =>
          /\ ret.digest = finalize(Replay(new, ret.of))
          /\ ret.of = <<>> => ret.digest = hash(<<>>)

\* finalize_reset, one update, and a digest taken again
C2_Witness ==
    /\ Returned
    /\ ret.base = "finalize_reset"
    /\ Len(ret.of) = 1
    /\ ret.digest = hash(ret.of[1])

(* C7: reset returns the instance to the state of new() from any state,    *)
(* resetting twice is resetting once, and a digest taken after a reset     *)
(* covers only the slices fed after it.                                    *)
C7_ResetReturnsToEmpty ==
    /\ last = "reset" => hasher = new
    /\ reset(reset(hasher)) = reset(hasher)
    /\ (Returned /\ ret.base = "reset") =>
          /\ ret.digest = finalize(Replay(new, ret.of))
          /\ ret.of = <<>> => ret.digest = hash(<<>>)

\* a reset that discarded more than a block of input (the chaining value had
\* moved and the buffer was not empty)
C7_Witness ==
    /\ last = "reset"
    /\ Len(Flatten(ret.of)) > BLOCK_SIZE
    /\ hasher = new

-----------------------------------------------------------------------------
(* Properties of the digest conversions, checked under SpecDigest.         *)

Constructed == dig.by \in {"from_vec", "from_slice"}

(* C4: building a digest from a vector or slice whose length is not 32     *)
(* panics, for shorter and longer buffers and for the empty one, and never *)
(* yields a digest; from exactly 32 bytes it yields those bytes.           *)
C4_IllSizedConversionPanics ==
    Constructed =>
        /\ Len(input) # OUTPUT_SIZE =>
              /\ dig.panic # ""
              /\ dig.by = "from_vec" =>
                    dig.panic = "Failed converting Vec<u8> to Blake2Hash type: "
                                    \o DebugVec(input)
              /\ dig.by = "from_slice" =>
                    dig.panic = "Failed converting &[u8] to Blake2sHash Type!: TryFromSliceError(())"
              /\ (dig.by = "from_vec" /\ input = <<>>) =>
                    dig.panic = "Failed converting Vec<u8> to Blake2Hash type: []"
              /\ dig.value = NoDigest
              /\ dstep = "panicked"
        /\ Len(input) = OUTPUT_SIZE =>
              /\ dig.panic = ""
              /\ DOMAIN Field0(dig.value) = 0..(OUTPUT_SIZE - 1)
              /\ \A i \in 0..(OUTPUT_SIZE - 1) : Field0(dig.value)[i] = input[i + 1]

\* a buffer one byte too long was refused
C4_Witness ==
    /\ Constructed
    /\ Len(input) = OUTPUT_SIZE + 1
    /\ dig.panic # ""
    /\ dstep = "panicked"

(* C5: a digest converted to a byte vector and back, and a digest          *)
(* converted to a 32-byte array and back, is the digest it was: whenever   *)
(* a vector or an array has come out of a digest the conversion back can   *)
(* be made, and its result is that digest.                                 *)
C5_DigestRoundTrip ==
    /\ (dstep = "converted" /\ conv.kind \in {"vec", "array"}) => ENABLED BackCall
    /\ dstep = "back" => back = Ok(dig.value)

\* the digest of a hash went out as an array, and nothing converts it back
C5_Witness ==
    /\ dstep = "converted"
    /\ dig.by = "hash"
    /\ conv.kind = "array"
    /\ conv.v = Field0(dig.value)
    /\ ~ENABLED BackCall

HashedA == dig.by = "hash" /\ input = <<97>> /\ conv.kind = "string"

(* C6 as stated: the text form of hash("a") is the 63-character string     *)
(* 4a0d...fec3e9.                                                          *)
C6_KnownAnswerAsStated ==
    HashedA =>
        conv.v = "4a0d129873403037c2cd9b9048203687f6233fb6738956e0349bd4320fec3e9"

(* C6, amended: the text form of hash("a") is the 64-character string      *)
(* 4a0d...fec3e90; the text form of any digest has two lowercase hex       *)
(* digits per byte, 64 in all, and that of the all-zero digest is 64       *)
(* zeros.                                                                  *)
C6_KnownAnswer ==
    /\ HashedA =>
          conv.v = "4a0d129873403037c2cd9b9048203687f6233fb6738956e0349bd4320fec3e90"
    /\ conv.kind = "string" => Len(conv.v) = 2 * OUTPUT_SIZE
    /\ (conv.kind = "string" /\ dig.by = "default") =>
          conv.v = "0000000000000000000000000000000000000000000000000000000000000000"

C6_Witness ==
    /\ HashedA
    /\ dstep = "converted"
    /\ Len(conv.v) = 2 * OUTPUT_SIZE

-----------------------------------------------------------------------------
(* Properties of hash_many_in_place, checked under SpecBatch.              *)

\* the n bytes of memory m at address p
BytesAt(m, p, n) == [i \in 1..n |-> m[p + i - 1]]

\* the regions of n bytes at p and of k bytes at q share a byte
Overlap(p, n, q, k) == p < q + k /\ q < p + n

\* the number of pairs the call processes
Pairs == Min(Len(call.data), Len(call.dst))

OutputsDisjoint ==
    \A i, j \in 1..Len(call.dst) :
        i # j => ~Overlap(call.dst[i], OUTPUT_SIZE, call.dst[j], OUTPUT_SIZE)

InputsApartFromOutputs ==
    \A i \in 1..Len(call.dst), j \in 1..Len(call.data) :
        ~Overlap(call.dst[i], OUTPUT_SIZE, call.data[j], call.len)

\* no input is overwritten by the output of an earlier pair
InputsReadIntact ==
    \A i \in 1..Len(call.dst), j \in 1..Len(call.data) :
        i < j => ~Overlap(call.dst[i], OUTPUT_SIZE, call.data[j], call.len)

\* the documented preconditions of the call
Preconditions ==
    /\ Len(call.data) = Len(call.dst)
    /\ OutputsDisjoint
    /\ InputsApartFromOutputs

\* the digest a fresh variable-output hasher of 32 bytes gives for bytes
VarDigest(bytes) ==
    finalize_variable(digest_blocks(Blake2sVar_new(OUTPUT_SIZE), bytes), OUTPUT_SIZE)

\* the memory after the first k writes of the trace
RECURSIVE MemAfter(_)
MemAfter(k) ==
    IF k = 0 THEN InitialMemory
    ELSE [a \in DOMAIN InitialMemory |->
            IF a >= trace[k].out /\ a < trace[k].out + OUTPUT_SIZE
            THEN trace[k].written[a - trace[k].out + 1]
            ELSE MemAfter(k - 1)[a]]

(* C3: for as many output addresses as inputs, the output regions         *)
(* pairwise disjoint and no input overwritten before it is read, after the *)
(* call the 32 bytes at the i-th output address are the bytes of           *)
(* hash(input_i), input_i as it was at call time, for every i, whatever    *)
(* the number of pairs and wherever the outputs lie.                       *)
C3_BatchEqualsSingle ==
    (/\ bstep = "returned"
     /\ Len(call.data) = Len(call.dst)
     /\ OutputsDisjoint
     /\ InputsReadIntact) =>
        \A i \in 1..Len(call.data) :
            BytesAt(mem, call.dst[i], OUTPUT_SIZE)
                = AsRef(hash(BytesAt(InitialMemory, call.data[i], call.len)))

\* two different inputs hashed into two regions with a gap, second region first
C3_Witness ==
    /\ bstep = "returned"
    /\ Preconditions
    /\ call.data = <<0, 4>>
    /\ call.dst = <<72, 8>>
    /\ BytesAt(mem, 8, OUTPUT_SIZE) # BytesAt(mem, 72, OUTPUT_SIZE)
    /\ BytesAt(mem, 8, OUTPUT_SIZE) # BytesAt(InitialMemory, 8, OUTPUT_SIZE)

(* C8: the call changes only the 32 bytes at each output address it        *)
(* processes; each index is computed once, writes its own output address,  *)
(* and its digest comes from a hasher of its own fed nothing but its own   *)
(* input region; when no output region shares a byte with an input region  *)
(* the input regions are unchanged and each computation reads its input as *)
(* it was at call time, nothing another index produced.                    *)
C8_FrameEffect ==
    bstep = "returned" =>
        /\ DOMAIN mem = DOMAIN InitialMemory
        /\ \A a \in DOMAIN mem :
              (\A k \in 1..Pairs : ~Overlap(a, 1, call.dst[k], OUTPUT_SIZE))
                  => mem[a] = InitialMemory[a]
        /\ \A k \in 1..Pairs :
              /\ Cardinality({t \in DOMAIN trace :
                                 trace[t].index = k /\ trace[t].out = call.dst[k]}) = 1
              /\ Cardinality({t \in DOMAIN trace : trace[t].index = k}) = 1
              /\ Len(trace[k].read) = call.len
              /\ trace[k].written = VarDigest(trace[k].read)
        /\ InputsApartFromOutputs =>
              \A k \in 1..Pairs :
                  /\ BytesAt(mem, call.data[k], call.len)
                        = BytesAt(InitialMemory, call.data[k], call.len)
                  /\ trace[k].read = BytesAt(InitialMemory, call.data[k], call.len)

\* two outputs with a gap between them: the gap and the inputs are as before
C8_Witness ==
    /\ bstep = "returned"
    /\ Preconditions
    /\ call.dst = <<8, 72>>
    /\ Len(call.data) = 2
    /\ BytesAt(mem, 40, OUTPUT_SIZE) = BytesAt(InitialMemory, 40, OUTPUT_SIZE)
    /\ mem # InitialMemory

(* C9: with address collections of different lengths the call returns      *)
(* without error, having processed exactly the first min(len(data),        *)
(* len(dst)) pairs in index order: their outputs are written, no output    *)
(* address at a later index is written and no input at a later index is    *)
(* hashed.                                                                 *)
C9_LengthMismatchTruncates ==
    (bstep = "returned" /\ Len(call.data) # Len(call.dst)) =>
        /\ Len(trace) = Pairs
        /\ \A k \in 1..Len(trace) :
              /\ trace[k].index = k
              /\ trace[k].src = call.data[k]
              /\ trace[k].out = call.dst[k]
        /\ Pairs > 0 =>
              BytesAt(mem, call.dst[Pairs], OUTPUT_SIZE) = trace[Pairs].written
        /\ \A i \in (Pairs + 1)..Len(call.dst) :
              (\A k \in 1..Pairs :
                  ~Overlap(call.dst[i], OUTPUT_SIZE, call.dst[k], OUTPUT_SIZE))
                  => BytesAt(mem, call.dst[i], OUTPUT_SIZE)
                        = BytesAt(InitialMemory, call.dst[i], OUTPUT_SIZE)

\* more outputs than inputs: the extra output region is as before
C9_Witness ==
    /\ bstep = "returned"
    /\ Len(call.data) = 1
    /\ call.dst = <<8, 72>>
    /\ Len(trace) = 1
    /\ BytesAt(mem, 72, OUTPUT_SIZE) = BytesAt(InitialMemory, 72, OUTPUT_SIZE)
    /\ BytesAt(mem, 8, OUTPUT_SIZE) = trace[1].written

\* the highest index whose output region holds address a (0 when none does)
RECURSIVE LastWriter(_, _)
LastWriter(a, k) ==
    IF k = 0 THEN 0
    ELSE IF Overlap(a, 1, call.dst[k], OUTPUT_SIZE) THEN k
    ELSE LastWriter(a, k - 1)

(* C10: the pairs are processed one after the other in increasing index    *)
(* order, input k being read when pair k is processed: each digest is that *)
(* of the input bytes as the earlier writes left them, and a byte of       *)
(* overlapping output regions finally holds the digest byte of the highest *)
(* index that covers it.                                                   *)
C10_SequentialOverlap ==
    bstep = "returned" =>
        /\ Len(trace) = Pairs
        /\ \A k \in 1..Len(trace) :
              /\ trace[k].index = k
              /\ trace[k].src = call.data[k]
              /\ trace[k].out = call.dst[k]
              /\ trace[k].read = BytesAt(MemAfter(k - 1), call.data[k], call.len)
              /\ trace[k].written = VarDigest(trace[k].read)
        /\ \A a \in DOMAIN mem :
              LastWriter(a, Pairs) # 0 =>
                  mem[a] = trace[LastWriter(a, Pairs)].written[
                               a - call.dst[LastWriter(a, Pairs)] + 1]

\* output region 1 holds input 2 and overlaps output region 2: the second
\* digest is that of overwritten bytes, and sits on top of the first
C10_Witness ==
    /\ bstep = "returned"
    /\ call.dst = <<8, 32>>
    /\ call.data = <<0, 30>>
    /\ trace[2].read # BytesAt(InitialMemory, 30, call.len)
    /\ trace[2].written # VarDigest(BytesAt(InitialMemory, 30, call.len))
    /\ BytesAt(mem, 32, OUTPUT_SIZE) = trace[2].written
    /\ BytesAt(mem, 8, OUTPUT_SIZE) # trace[1].written

====
